---- MODULE Spec2Model ----
(***************************************************************************)
(* Model of the document engine of oxums/load (src-tauri/src/lib.rs,       *)
(* task.rs, pools.rs): the single-document buffer manager, the fallback   *)
(* of its tokenization, and the background file-ingestion queue with its   *)
(* start-once consumer.                                                    *)
(*                                                                         *)
(* Strings are sequences of bytes, each byte a one-character string, so    *)
(* that String::len(), split('\n'), trim_end_matches('\r') and join("\n")  *)
(* are computed as the code computes them.                                 *)
(***************************************************************************)
EXTENDS Integers, Sequences, FiniteSets, Bags, TLC

\* ---------------------------------------------------------------- bounds
MaxFileLen == 2      \* longest file content on disk at start, in bytes
MaxLines == 2        \* longest line sequence the commands may build
MaxIdx == 2          \* largest line index passed to a command
MaxSaveLen == 0      \* longest content save_buffer writes, in bytes

\* ------------------------------------------------------------- byte sets
LF == "\n"
CR == "\r"
InvalidByte == "xFF"                 \* a byte that is not valid UTF-8
FileBytes == {"a", CR, LF}
ContentBytes == {"b"}

RECURSIVE SeqsUpTo(_, _)
SeqsUpTo(S, n) ==
  IF n = 0 THEN {<<>>}
  ELSE LET shorter == SeqsUpTo(S, n - 1)
       IN shorter \cup {Append(s, b) : s \in {t \in shorter : Len(t) = n - 1}, b \in S}

\* the file "def f():\n    pass\n"
SamplePy == <<"d", "e", "f", " ", "f", "(", ")", ":", LF,
              " ", " ", " ", " ", "p", "a", "s", "s", LF>>

\* what the file on disk holds at start: any text up to the bound, the sample
\* file, or bytes that are not UTF-8
FileContents == SeqsUpTo(FileBytes, MaxFileLen) \cup {SamplePy, <<InvalidByte>>}
\* the content strings passed to write_line and insert_line
Contents == {<<>>} \cup {<<c>> : c \in ContentBytes}
Idx == 0..MaxIdx

\* Option<T> as a sequence of length at most one
None == <<>>
Some(x) == <<x>>
is_some(o) == o # <<>>
unwrap(o) == o[1]

\* ------------------------------------------------------ string functions
Max(a, b) == IF a >= b THEN a ELSE b
saturating_sub(a, b) == IF a >= b THEN a - b ELSE 0

Last(s) == s[Len(s)]
Front(s) == SubSeq(s, 1, Len(s) - 1)

\* str::split('\n'): always at least one piece; a trailing '\n' gives a last
\* empty piece
RECURSIVE split_terminator(_, _)
split_terminator(s, sep) ==          \* faulty variant: no piece after a final separator
  IF s = <<>> THEN <<>>
  ELSE IF \A i \in 1..Len(s) : s[i] # sep THEN <<s>>
  ELSE LET i == CHOOSE k \in 1..Len(s) : s[k] = sep /\ \A j \in 1..(k - 1) : s[j] # sep
       IN <<SubSeq(s, 1, i - 1)>> \o split_terminator(SubSeq(s, i + 1, Len(s)), sep)
RECURSIVE split(_, _)
split(s, sep) ==
  IF \A i \in 1..Len(s) : s[i] # sep THEN <<s>>
  ELSE LET i == CHOOSE k \in 1..Len(s) : s[k] = sep /\ \A j \in 1..(k - 1) : s[j] # sep
       IN <<SubSeq(s, 1, i - 1)>> \o split(SubSeq(s, i + 1, Len(s)), sep)

\* str::trim_end_matches('\r'): removes every trailing '\r', not only one
RECURSIVE trim_end_matches(_, _)
trim_end_matches(s, c) ==
  IF s # <<>> /\ Last(s) = c THEN trim_end_matches(Front(s), c) ELSE s

\* [String]::join("\n")
RECURSIVE join(_, _)
join(lines, sep) ==
  IF lines = <<>> THEN <<>>
  ELSE IF Len(lines) = 1 THEN lines[1]
  ELSE lines[1] \o <<sep>> \o join(Tail(lines), sep)

\* lines.iter().map(|l| l.len()).sum::<usize>()
RECURSIVE sum_len(_)
sum_len(lines) == IF lines = <<>> THEN 0 ELSE Len(lines[1]) + sum_len(Tail(lines))

\* the expression every line mutation assigns to file.size
recompute_size(lines) == sum_len(lines) + saturating_sub(Len(lines), 1)

\* std::fs::read_to_string: Err for a missing file or for bytes that are not
\* valid UTF-8
valid_utf8(bytes) == \A i \in 1..Len(bytes) : bytes[i] # InvalidByte
read_to_string(d, path) ==
  IF is_some(d[path]) /\ valid_utf8(unwrap(d[path])) THEN Some(unwrap(d[path])) ELSE None

\* ------------------------------------------------------------------ paths
\* a path is a sequence of characters
PathPy == <<"a", ".", "p", "y">>
PathOther == <<"d", "/", "n", ".", "X", "y">>
Paths == {PathPy, PathOther}

\* Path::file_name: the final component
RECURSIVE file_name(_)
file_name(p) ==
  IF \A i \in 1..Len(p) : p[i] # "/" THEN p
  ELSE file_name(Tail(p))

\* Path::extension: the part of the file name after its last '.', None when
\* there is no '.' or the only '.' starts the name
extension(p) ==
  LET f == file_name(p)
      dots == {i \in 2..Len(f) : f[i] = "."}
  IN IF dots = {} THEN None
     ELSE LET i == CHOOSE k \in dots : \A j \in dots : j <= k
          IN Some(SubSeq(f, i + 1, Len(f)))

UpperCase == <<"A","B","C","D","E","F","G","H","I","J","K","L","M",
               "N","O","P","Q","R","S","T","U","V","W","X","Y","Z">>
LowerCase == <<"a","b","c","d","e","f","g","h","i","j","k","l","m",
               "n","o","p","q","r","s","t","u","v","w","x","y","z">>
char_to_ascii_lowercase(c) ==
  IF \E i \in 1..26 : UpperCase[i] = c
  THEN LowerCase[CHOOSE i \in 1..26 : UpperCase[i] = c]
  ELSE c

\* str::to_ascii_lowercase, returned as one string
RECURSIVE to_ascii_lowercase(_)
to_ascii_lowercase(s) ==
  IF s = <<>> THEN "" ELSE char_to_ascii_lowercase(s[1]) \o to_ascii_lowercase(Tail(s))

detect_language_raw(path) ==         \* faulty variant: the extension itself, no lookup
  LET e == extension(path)
  IN IF is_some(e) THEN to_ascii_lowercase(unwrap(e)) ELSE ""
detect_language_from_extension(path) ==
  LET e == extension(path)
      ext == IF is_some(e) THEN to_ascii_lowercase(unwrap(e)) ELSE ""
  IN CASE ext = "rs" -> "rust"
       [] ext \in {"ts", "tsx"} -> "typescript"
       [] ext \in {"js", "jsx"} -> "javascript"
       [] ext = "json" -> "json"
       [] ext = "css" -> "css"
       [] ext \in {"html", "htm"} -> "html"
       [] ext \in {"md", "markdown"} -> "markdown"
       [] ext = "go" -> "go"
       [] ext = "java" -> "java"
       [] ext = "c" -> "c"
       [] ext \in {"cpp", "cc", "cxx", "hpp", "hh", "hxx"} -> "cpp"
       [] ext = "py" -> "python"
       [] ext \in {"hs", "lhs"} -> "haskell"
       [] ext = "zig" -> "zig"
       [] ext = "dart" -> "dart"
       [] ext = "swift" -> "swift"
       [] ext \in {"kt", "kts"} -> "kotlin"
       [] ext = "sql" -> "sql"
       [] ext = "php" -> "php"
       [] ext = "lua" -> "lua"
       [] ext = "rb" -> "ruby"
       [] ext \in {"ml", "mli"} -> "ocaml"
       [] ext \in {"sh", "bash"} -> "bash"
       [] ext \in {"ps1", "psm1", "psd1"} -> "powershell"
       [] OTHER -> ext

Languages == {"Go"}                  \* tags passed to change_language


\* ------------------------------------------------------------------ state
VARIABLES
  editorState,  \* EditorState: Option<FileState>, the single document slot
  disk,         \* the files: path -> Option<bytes>
  dirs,         \* the directories that exist
  events,       \* events emitted through app.emit by the step just taken
                \* (by all commands so far in the writers specification)
  last,         \* the response of the step just taken: command, arguments, result
  opening,      \* the bag of open_file and create_empty_file calls between their parts
  mutex,        \* owner of the EditorState mutex in the writers specification
  tpc,          \* position of each thread of the writers specification
  targ,         \* arguments of each thread's command
  tbase,        \* the slot when the threads of the writers specification started
  seen,         \* what the read_line calls of the reader thread observed
  READY_ALREADY_CALLED,  \* the start-once latch of ready
  tasks,        \* TaskPool.tasks: the pending list
  tasks_lock,   \* owner of the mutex around TaskPool.tasks
  channel,      \* number of () messages in the notifier/receiver channel
  ppc,          \* position of each producer thread inside add_task
  rpc,          \* position of each caller of ready
  current_files,\* ready's local current_files, per caller
  cpc,          \* position of the consumer loop spawned by each caller of ready
  new_files,    \* the consumer loop's local new_files
  dispatched,   \* the paths handed to process_queued_file, in order
  added,        \* history: the paths pushed by add_task, in push order
  hist          \* history: counters and the batches the consumer loop fetched

docVars == <<editorState, disk, dirs, events, last, opening>>
threadVars == <<mutex, tpc, targ, tbase, seen>>
queueVars == <<READY_ALREADY_CALLED, tasks, tasks_lock, channel, ppc, rpc, current_files,
               cpc, new_files, dispatched, added, hist>>

FileState(path, name, size, language, lines) ==
  [path |-> path, name |-> name, size |-> size, language |-> language, lines |-> lines]

FileMetadata(name, path, size, language, line_count) ==
  [name |-> name, path |-> path, size |-> size, language |-> language,
   line_count |-> line_count]

Event(name, payload) == [name |-> name, payload |-> payload]

Ok(v) == [ok |-> TRUE, val |-> v]
Err(msg) == [ok |-> FALSE, val |-> <<msg>>]
Unit == <<>>
NoFileOpened == "no file opened"
IoError == "io error"

NoPath == <<>>
Command(op, path, num, content, language, ret) ==
  [op |-> op, path |-> path, num |-> num, content |-> content, language |-> language,
   ret |-> ret]

\* no response: no command has returned in the step just taken
NoCommand == [op |-> "none", path |-> NoPath, num |-> 0, content |-> <<>>, language |-> "",
              ret |-> Ok(Unit)]

\* a call of open_file or create_empty_file between its parts: the text it
\* read or wrote, and how far it is
Call(op, pc, path, contents) == [op |-> op, pc |-> pc, path |-> path, contents |-> contents]
\* the worker threads that run open_file and create_empty_file
Callers == {"t1", "t2"}

\* Vec::resize(n, String::new()): truncates or pads with empty strings
resize(lines, n) ==
  IF n <= Len(lines) THEN SubSeq(lines, 1, n)
  ELSE lines \o [i \in 1..(n - Len(lines)) |-> <<>>]

\* Vec::insert(idx, x) for idx <= len
vec_insert_overwrite(lines, idx, x) ==    \* faulty variant: the line at idx is replaced
  [lines EXCEPT ![idx + 1] = x]
vec_insert(lines, idx, x) ==
  SubSeq(lines, 1, idx) \o <<x>> \o SubSeq(lines, idx + 1, Len(lines))

\* Vec::remove(idx) for idx < len
vec_remove(lines, idx) ==
  SubSeq(lines, 1, idx) \o SubSeq(lines, idx + 2, Len(lines))

lines_of(slot) == unwrap(slot).lines
lines_of_slot(slot) == IF is_some(slot) THEN lines_of(slot) ELSE <<>>

\* ------------------------------------------------- buffer manager commands
open_lines(contents) ==
  LET pieces == split(contents, LF)
  IN [i \in 1..Len(pieces) |-> trim_end_matches(pieces[i], CR)]

\* the FileState and the FileMetadata open_file builds from the text it read
open_file_state(path, contents) ==
  FileState(path, file_name(path), Len(contents), detect_language_from_extension(path),
            open_lines(contents))
open_file_meta(path, contents) ==
  FileMetadata(file_name(path), path, Len(contents), detect_language_from_extension(path),
               Len(open_lines(contents)))

\* open_file runs in three parts.  fs::read_to_string(&pb)? before the mutex
\* is taken: an error returns at once
open_file_read(path) ==
  LET contents == read_to_string(disk, path) IN
  IF is_some(contents)
  THEN /\ opening' = opening (+) SetToBag({Call("open_file", "read", path, unwrap(contents))})
       /\ last' = NoCommand
       /\ events' = <<>>
       /\ UNCHANGED <<editorState, disk, dirs>>
  ELSE /\ last' = Command("open_file", path, 0, <<>>, "", Err(IoError))
       /\ events' = <<>>
       /\ UNCHANGED <<editorState, disk, dirs, opening>>

\* { let mut guard = state.0.lock().unwrap(); *guard = Some(FileState {..}); }
open_file_store(call) ==
  /\ BagIn(call, opening)
  /\ call.op = "open_file"
  /\ call.pc = "read"
  /\ editorState' = Some(open_file_state(call.path, call.contents))
  /\ opening' = (opening (-) SetToBag({call})) (+) SetToBag({[call EXCEPT !.pc = "stored"]})
  /\ last' = NoCommand
  /\ events' = <<>>
  /\ UNCHANGED <<disk, dirs>>

\* app.emit("file-opened", &meta) with the mutex free, then Ok(meta)
open_file_emit(call) ==
  /\ BagIn(call, opening)
  /\ call.op = "open_file"
  /\ call.pc = "stored"
  /\ LET meta == open_file_meta(call.path, call.contents)
     IN /\ events' = <<Event("file-opened", meta)>>
        /\ last' = Command("open_file", call.path, 0, <<>>, "", Ok(<<meta>>))
  /\ opening' = opening (-) SetToBag({call})
  /\ UNCHANGED <<editorState, disk, dirs>>

create_lines_no_line == <<>>         \* faulty variant: vec![] in place of vec![String::new()]
create_lines == <<<<>>>>             \* vec![String::new()]

\* Path::parent: the path without its final component, "" for a bare file name
parent(p) ==
  LET slashes == {i \in 1..Len(p) : p[i] = "/"}
  IN IF slashes = {} THEN <<>>
     ELSE SubSeq(p, 1, (CHOOSE k \in slashes : \A j \in slashes : j <= k) - 1)

\* the directories of the paths; the working directory "" always exists
Dirs == {parent(p) : p \in Paths} \ {<<>>}
dir_exists(ds, p) == p = <<>> \/ p \in ds
files_in(dir) == {p \in Paths : parent(p) = dir}

\* fs::create_dir_all: Ok at once for "" and for a directory that exists
create_dir_all(ds, p) == IF p = <<>> THEN ds ELSE ds \cup {p}

\* what the file system does for create_empty_file: the call that fails, if
\* any; fs::create_dir_all fails only where it has a directory to make
IoOutcomes(ds, path) ==
  {"ok", "write"} \cup (IF dir_exists(ds, parent(path)) THEN {} ELSE {"create_dir_all"})

CreateCommand(path, io, ret) ==
  [op |-> "create_empty_file", path |-> path, num |-> 0, content |-> <<>>, language |-> "",
   ret |-> ret, io |-> io]

create_empty_file_state(path) ==
  FileState(path, file_name(path), 0, detect_language_from_extension(path), create_lines)
create_empty_file_meta(path) ==
  FileMetadata(file_name(path), path, 0, detect_language_from_extension(path),
               Len(create_lines))

\* faulty variant: the slot is stored before the directory and the file are made
create_empty_file_write_store_first(path, io) ==
  /\ editorState' = Some(create_empty_file_state(path))
  /\ events' = <<>>
  /\ IF io = "create_dir_all"
     THEN /\ last' = CreateCommand(path, io, Err(IoError))
          /\ UNCHANGED <<disk, dirs, opening>>
     ELSE /\ dirs' = create_dir_all(dirs, parent(path))
          /\ IF io = "write"
             THEN /\ last' = CreateCommand(path, io, Err(IoError))
                  /\ UNCHANGED <<disk, opening>>
             ELSE /\ disk' = [disk EXCEPT ![path] = Some(<<>>)]
                  /\ opening' = opening (+) SetToBag({Call("create_empty_file", "written",
                                                         path, <<>>)})
                  /\ last' = NoCommand

\* create_empty_file runs in three parts.  fs::create_dir_all(parent)? and
\* fs::write(&pb, "")? before the mutex is taken: an error returns at once,
\* after a failed write with the directory made
create_empty_file_write(path, io) ==
  /\ events' = <<>>
  /\ UNCHANGED editorState
  /\ IF io = "create_dir_all"
     THEN /\ last' = CreateCommand(path, io, Err(IoError))
          /\ UNCHANGED <<disk, dirs, opening>>
     ELSE /\ dirs' = create_dir_all(dirs, parent(path))
          /\ IF io = "write"
             THEN /\ last' = CreateCommand(path, io, Err(IoError))
                  /\ UNCHANGED <<disk, opening>>
             ELSE /\ disk' = [disk EXCEPT ![path] = Some(<<>>)]
                  /\ opening' = opening (+) SetToBag({Call("create_empty_file", "written",
                                                         path, <<>>)})
                  /\ last' = NoCommand

\* { let mut guard = state.0.lock().unwrap(); *guard = Some(FileState {..}); }
create_empty_file_store(call) ==
  /\ BagIn(call, opening)
  /\ call.op = "create_empty_file"
  /\ call.pc = "written"
  /\ editorState' = Some(create_empty_file_state(call.path))
  /\ opening' = (opening (-) SetToBag({call})) (+) SetToBag({[call EXCEPT !.pc = "stored"]})
  /\ last' = NoCommand
  /\ events' = <<>>
  /\ UNCHANGED <<disk, dirs>>

\* app.emit("file-opened", &meta) with the mutex free, then Ok(meta)
create_empty_file_emit(call) ==
  /\ BagIn(call, opening)
  /\ call.op = "create_empty_file"
  /\ call.pc = "stored"
  /\ LET meta == create_empty_file_meta(call.path)
     IN /\ events' = <<Event("file-opened", meta)>>
        /\ last' = CreateCommand(call.path, "ok", Ok(<<meta>>))
  /\ opening' = opening (-) SetToBag({call})
  /\ UNCHANGED <<editorState, disk, dirs>>

read_line_result_strict(slot, num) ==          \* faulty variant: a read past the end is an error
  IF is_some(slot)
  THEN IF num < Len(unwrap(slot).lines)
       THEN Ok(<<unwrap(slot).lines[num + 1]>>)
       ELSE Err("line out of range")
  ELSE Err(NoFileOpened)
read_line_result(slot, num) ==
  IF is_some(slot)
  THEN IF num < Len(unwrap(slot).lines)
       THEN Ok(<<unwrap(slot).lines[num + 1]>>)
       ELSE Ok(<<<<>>>>)
  ELSE Err(NoFileOpened)

read_line(num) ==
  /\ last' = Command("read_line", NoPath, num, <<>>, "", read_line_result(editorState, num))
  /\ events' = <<>>
  /\ UNCHANGED <<editorState, disk, dirs>>

\* the three steps of write_line's body on the FileState
write_line_resize_strict(file, num) ==     \* faulty variant: `num > len` in place of `num >= len`
  IF num > Len(file.lines) THEN [file EXCEPT !.lines = resize(file.lines, num + 1)] ELSE file
write_line_resize(file, num) ==
  IF num >= Len(file.lines) THEN [file EXCEPT !.lines = resize(file.lines, num + 1)] ELSE file
write_line_assign(file, num, content) ==
  [file EXCEPT !.lines = [file.lines EXCEPT ![num + 1] = content]]
update_size(file) == [file EXCEPT !.size = recompute_size(file.lines)]

write_line_body(file, num, content) ==
  update_size(write_line_assign(write_line_resize(file, num), num, content))

write_line(num, content) ==
  IF is_some(editorState)
  THEN /\ Max(Len(unwrap(editorState).lines), num + 1) <= MaxLines
       /\ editorState' = Some(write_line_body(unwrap(editorState), num, content))
       /\ events' = <<Event("file-updated", [line |-> num, content |-> content])>>
       /\ last' = Command("write_line", NoPath, num, content, "", Ok(Unit))
       /\ UNCHANGED <<disk, dirs>>
  ELSE /\ last' = Command("write_line", NoPath, num, content, "", Err(NoFileOpened))
       /\ events' = <<>>
       /\ UNCHANGED <<editorState, disk, dirs>>

insert_idx(lines, num) == IF num > Len(lines) THEN Len(lines) ELSE num

RECURSIVE pad_to(_, _)
pad_to(lines, idx) ==                \* while lines.len() < idx { push("") }
  IF Len(lines) < idx THEN pad_to(Append(lines, <<>>), idx) ELSE lines

insert_line_lines(lines, num, content) ==
  LET idx == insert_idx(lines, num)
  IN IF idx >= Len(lines)
     THEN Append(IF idx > Len(lines) THEN pad_to(lines, idx) ELSE lines, content)
     ELSE vec_insert(lines, idx, content)

insert_line(num, content) ==
  IF is_some(editorState)
  THEN LET file == unwrap(editorState)
           idx == insert_idx(file.lines, num)
           lines == insert_line_lines(file.lines, num, content)
       IN /\ Len(lines) <= MaxLines
          /\ editorState' = Some(update_size([file EXCEPT !.lines = lines]))
          /\ events' = <<Event("file-updated",
                               [line |-> idx, content |-> lines[idx + 1],
                                totalLines |-> Len(lines)])>>
          /\ last' = Command("insert_line", NoPath, num, content, "", Ok(Unit))
          /\ UNCHANGED <<disk, dirs>>
  ELSE /\ last' = Command("insert_line", NoPath, num, content, "", Err(NoFileOpened))
       /\ events' = <<>>
       /\ UNCHANGED <<editorState, disk, dirs>>

\* if num >= file.lines.len() { return Ok(()) }
remove_line_past_end_strict(file, num) == num > Len(file.lines)  \* faulty variant: `>` in place of `>=`
remove_line_past_end(file, num) == num >= Len(file.lines)

remove_line(num) ==
  IF is_some(editorState)
  THEN LET file == unwrap(editorState) IN
       IF remove_line_past_end(file, num)
       THEN /\ last' = Command("remove_line", NoPath, num, <<>>, "", Ok(Unit))
            /\ events' = <<>>
            /\ UNCHANGED <<editorState, disk, dirs>>
       ELSE LET lines == vec_remove(file.lines, num)
            IN /\ editorState' = Some(update_size([file EXCEPT !.lines = lines]))
               /\ events' = <<Event("file-updated",
                                    [line |-> num,
                                     content |-> IF num < Len(lines) THEN lines[num + 1]
                                                 ELSE <<>>,
                                     totalLines |-> Len(lines)])>>
               /\ last' = Command("remove_line", NoPath, num, <<>>, "", Ok(Unit))
               /\ UNCHANGED <<disk, dirs>>
  ELSE /\ last' = Command("remove_line", NoPath, num, <<>>, "", Err(NoFileOpened))
       /\ events' = <<>>
       /\ UNCHANGED <<editorState, disk, dirs>>

\* what the file system does for save_buffer: the call that fails, if any
SaveOutcomes == {"ok", "write"}

SaveCommand(io, ret) ==
  [op |-> "save_buffer", path |-> NoPath, num |-> 0, content |-> <<>>, language |-> "",
   ret |-> ret, io |-> io]

save_buffer_unchecked(io) ==         \* faulty variant: Ok(()) when no document is open
  IF is_some(editorState)
  THEN LET file == unwrap(editorState)
           contents == join(file.lines, LF)
       IN IF io = "write" \/ ~dir_exists(dirs, parent(file.path))
          THEN /\ last' = SaveCommand(io, Err(IoError))
               /\ events' = <<>>
               /\ UNCHANGED <<editorState, disk, dirs>>
          ELSE /\ Len(contents) <= MaxSaveLen
               /\ disk' = [disk EXCEPT ![file.path] = Some(contents)]
               /\ UNCHANGED dirs
               /\ last' = SaveCommand(io, Ok(Unit))
               /\ events' = <<>>
               /\ UNCHANGED editorState
  ELSE /\ last' = SaveCommand(io, Ok(Unit))
       /\ events' = <<>>
       /\ UNCHANGED <<editorState, disk, dirs>>
\* fs::write(&file.path, contents)? with the guard held: an error, which is
\* what a missing directory gives, leaves the file as it is
save_buffer(io) ==
  IF is_some(editorState)
  THEN LET file == unwrap(editorState)
           contents == join(file.lines, LF)
       IN IF io = "write" \/ ~dir_exists(dirs, parent(file.path))
          THEN /\ last' = SaveCommand(io, Err(IoError))
               /\ events' = <<>>
               /\ UNCHANGED <<editorState, disk, dirs>>
          ELSE /\ Len(contents) <= MaxSaveLen
               /\ disk' = [disk EXCEPT ![file.path] = Some(contents)]
               /\ UNCHANGED dirs
               /\ last' = SaveCommand(io, Ok(Unit))
               /\ events' = <<>>
               /\ UNCHANGED editorState
  ELSE /\ last' = SaveCommand(io, Err(NoFileOpened))
       /\ events' = <<>>
       /\ UNCHANGED <<editorState, disk, dirs>>

change_language_silent(language) ==  \* faulty variant: the emit is missing
  IF is_some(editorState)
  THEN /\ editorState' = Some([unwrap(editorState) EXCEPT !.language = language])
       /\ events' = <<>>
       /\ last' = Command("change_language", NoPath, 0, <<>>, language, Ok(Unit))
       /\ UNCHANGED <<disk, dirs>>
  ELSE /\ last' = Command("change_language", NoPath, 0, <<>>, language, Err(NoFileOpened))
       /\ events' = <<>>
       /\ UNCHANGED <<editorState, disk, dirs>>
change_language(language) ==
  IF is_some(editorState)
  THEN /\ editorState' = Some([unwrap(editorState) EXCEPT !.language = language])
       /\ events' = <<Event("language-changed", [language |-> language])>>
       /\ last' = Command("change_language", NoPath, 0, <<>>, language, Ok(Unit))
       /\ UNCHANGED <<disk, dirs>>
  ELSE /\ last' = Command("change_language", NoPath, 0, <<>>, language, Err(NoFileOpened))
       /\ events' = <<>>
       /\ UNCHANGED <<editorState, disk, dirs>>

close_file ==
  /\ editorState' = None
  /\ events' = <<>>
  /\ last' = Command("close_file", NoPath, 0, <<>>, "", Ok(Unit))
  /\ UNCHANGED <<disk, dirs>>

\* ----------------------------------------------------------- file commands
\* copy_path, move_path and delete_path work on the file system, not on the
\* slot, and emit nothing.  copy_path and move_path are given the paths of
\* files, delete_path the path of a file or of a directory; all paths are on
\* one device, so that fs::rename does not fail with CrossesDevices.
SourceMissing == "source does not exist"
PathMissing == "path does not exist"

FsCommand(op, path, dest, io, ret) ==
  [op |-> op, path |-> path, num |-> 0, content |-> <<>>, language |-> "", ret |-> ret,
   io |-> io, dest |-> dest]

CopyOutcomes(ds, dest) ==
  {"ok", "copy"} \cup (IF dir_exists(ds, parent(dest)) THEN {} ELSE {"create_dir_all"})
MoveOutcomes(ds, dest) ==
  {"ok", "rename"} \cup (IF dir_exists(ds, parent(dest)) THEN {} ELSE {"create_dir_all"})
\* fs::remove_dir_all removes the files of the directory, then the directory
DeleteOutcomes(d, path) ==
  IF path \in Dirs
  THEN {"ok", "remove_dir"}
         \cup (IF \E p \in files_in(path) : is_some(d[p]) THEN {"remove_file"} ELSE {})
  ELSE {"ok", "remove_file"}

\* copy_path, move_path and delete_path work on the files, not on the slot,
\* fs::copy(src, dest): dest is opened with truncate before src is read, so a
\* file copied onto itself is left empty
fs_copy(d, src, dest) ==
  [d EXCEPT ![dest] = IF src = dest THEN Some(<<>>) ELSE d[src]]

\* fs::rename(src, dest): a file renamed to itself stays
fs_rename(d, src, dest) ==
  IF src = dest THEN d ELSE [d EXCEPT ![dest] = d[src], ![src] = None]

copy_path(src, dest, io) ==
  /\ events' = <<>>
  /\ UNCHANGED editorState
  /\ IF ~is_some(disk[src])
     THEN /\ last' = FsCommand("copy_path", src, dest, io, Err(SourceMissing))
          /\ UNCHANGED <<disk, dirs>>
     ELSE IF io = "create_dir_all"
     THEN /\ last' = FsCommand("copy_path", src, dest, io, Err(IoError))
          /\ UNCHANGED <<disk, dirs>>
     ELSE /\ dirs' = create_dir_all(dirs, parent(dest))
          /\ IF io = "copy"
             THEN /\ last' = FsCommand("copy_path", src, dest, io, Err(IoError))
                  /\ UNCHANGED disk
             ELSE /\ disk' = fs_copy(disk, src, dest)
                  /\ last' = FsCommand("copy_path", src, dest, io, Ok(Unit))

move_path(src, dest, io) ==
  /\ events' = <<>>
  /\ UNCHANGED editorState
  /\ IF ~is_some(disk[src])
     THEN /\ last' = FsCommand("move_path", src, dest, io, Err(SourceMissing))
          /\ UNCHANGED <<disk, dirs>>
     ELSE IF io = "create_dir_all"
     THEN /\ last' = FsCommand("move_path", src, dest, io, Err(IoError))
          /\ UNCHANGED <<disk, dirs>>
     ELSE /\ dirs' = create_dir_all(dirs, parent(dest))
          /\ IF io = "rename"
             THEN /\ last' = FsCommand("move_path", src, dest, io, Err(IoError))
                  /\ UNCHANGED disk
             ELSE /\ disk' = fs_rename(disk, src, dest)
                  /\ last' = FsCommand("move_path", src, dest, io, Ok(Unit))

delete_path(path, io) ==
  /\ events' = <<>>
  /\ UNCHANGED editorState
  /\ IF path \in Dirs
     THEN IF path \notin dirs
          THEN /\ last' = FsCommand("delete_path", path, NoPath, io, Err(PathMissing))
               /\ UNCHANGED <<disk, dirs>>
          ELSE IF io = "remove_file"
          THEN /\ last' = FsCommand("delete_path", path, NoPath, io, Err(IoError))
               /\ UNCHANGED <<disk, dirs>>
          ELSE /\ disk' = [p \in Paths |-> IF p \in files_in(path) THEN None ELSE disk[p]]
               /\ dirs' = IF io = "remove_dir" THEN dirs ELSE dirs \ {path}
               /\ last' = FsCommand("delete_path", path, NoPath, io,
                                    IF io = "remove_dir" THEN Err(IoError) ELSE Ok(Unit))
     ELSE IF ~is_some(disk[path])
     THEN /\ last' = FsCommand("delete_path", path, NoPath, io, Err(PathMissing))
          /\ UNCHANGED <<disk, dirs>>
     ELSE IF io = "remove_file"
     THEN /\ last' = FsCommand("delete_path", path, NoPath, io, Err(IoError))
          /\ UNCHANGED <<disk, dirs>>
     ELSE /\ disk' = [disk EXCEPT ![path] = None]
          /\ UNCHANGED dirs
          /\ last' = FsCommand("delete_path", path, NoPath, io, Ok(Unit))

\* ---------------------------------------------------- tokenization pipeline
Min(a, b) == IF a <= b THEN a ELSE b

Offset(row, col) == [row |-> row, col |-> col]
Token(start_offset, end_offset, kind) ==
  [start_offset |-> start_offset, end_offset |-> end_offset, kind |-> kind]

\* the tags get_ts_language maps to a grammar
ParserTags ==
  {"rust", "javascript", "typescript", "tsx", "json", "css", "html", "markdown",
   "python", "go", "java", "c", "cpp", "zig", "lua", "dart", "php", "ruby", "bash",
   "powershell", "haskell", "ocaml", "swift"}

\* language.to_ascii_lowercase() on the tags a document of the model carries:
\* those of detect_language_from_extension are lower case already, and the
\* tag given to change_language is "Go"
tag_to_ascii_lowercase(language) ==
  CASE language = "Go" -> "go"
    [] OTHER -> language

\* get_ts_language(language).is_some()
get_ts_language(language) == tag_to_ascii_lowercase(language) \in ParserTags

\* the fallback loop: for row in start..=end { push(untokenized token) }
RECURSIVE untokenized_exclusive(_, _, _)
untokenized_exclusive(lines, row, end) ==     \* faulty variant: start..end
  IF row >= end THEN <<>>
  ELSE <<Token(Offset(row, 0), Offset(row, Len(lines[row + 1])), "untokenized")>>
         \o untokenized_exclusive(lines, row + 1, end)
RECURSIVE untokenized(_, _, _)
untokenized(lines, row, end) ==
  IF row > end THEN <<>>
  ELSE <<Token(Offset(row, 0), Offset(row, Len(lines[row + 1])), "untokenized")>>
         \o untokenized(lines, row + 1, end)

\* ------------------------------------------------------------- span trees
\* The grammar's parser is a library outside this repository; what it returns
\* is an input of request_tokenization: no tree (set_language or parse
\* failed), or a tree of nodes, each with a start and an end position, a kind
\* and its children in text order.
Point(row, column) == [row |-> row, column |-> column]
Node(start_position, end_position, kind, children) ==
  [start_position |-> start_position, end_position |-> end_position, kind |-> kind,
   children |-> children]

\* a leaf over the rows a..b of the text, from the start of row a to the end
\* of row b
LeafNode(lines, a, b) == Node(Point(a, 0), Point(b, Len(lines[b + 1])), "leaf", <<>>)
\* a node spans its children
InnerNode(children) ==
  Node(children[1].start_position, children[Len(children)].end_position, "inner", children)
\* the root spans the text
RootNode(lines, children) ==
  Node(Point(0, 0), Point(Len(lines) - 1, Len(lines[Len(lines)])), "module", children)

\* one leaf, or two leaves the second of which starts below the first
LeafRuns(lines) ==
  LET leaves == {LeafNode(lines, a, b) : a \in 0..(Len(lines) - 1), b \in 0..(Len(lines) - 1)}
      ordered == {l \in leaves : l.start_position.row <= l.end_position.row}
  IN {<<l>> : l \in ordered}
       \cup {r \in {<<l1, l2>> : l1 \in ordered, l2 \in ordered} :
               r[2].start_position.row > r[1].end_position.row}

\* the trees of a text of at least one line: a root without children, a root
\* over leaves, and roots over inner nodes and leaves
Trees(lines) ==
  LET runs == LeafRuns(lines)
      pairs == {r \in runs : Len(r) = 2}
  IN {RootNode(lines, <<>>)}
       \cup {RootNode(lines, r) : r \in runs}
       \cup {RootNode(lines, <<InnerNode(r)>>) : r \in runs}
       \cup {RootNode(lines, <<InnerNode(<<r[1]>>), r[2]>>) : r \in pairs}
       \cup {RootNode(lines, <<r[1], InnerNode(<<r[2]>>)>>) : r \in pairs}
       \cup {RootNode(lines, <<InnerNode(<<r[1]>>), InnerNode(<<r[2]>>)>>) : r \in pairs}

RawToken(sp, ep, kind) == [sp |-> sp, ep |-> ep, kind |-> kind]

\* collect_ts_tokens: pre-order walk that skips a node which ends above
\* row_start or starts below row_end, and pushes the nodes without children
RECURSIVE collect_ts_tokens_eager(_, _, _)
RECURSIVE collect_ts_tokens(_, _, _)
RECURSIVE collect_ts_tokens_children(_, _, _)
collect_ts_tokens_eager(node, row_start, row_end) ==
  \* faulty variant: `<=` in place of `<`, a node ending on row_start is skipped
  IF node.end_position.row <= row_start \/ node.start_position.row > row_end
  THEN <<>>
  ELSE IF Len(node.children) = 0
       THEN <<RawToken(node.start_position, node.end_position, node.kind)>>
       ELSE collect_ts_tokens_children(node.children, row_start, row_end)
collect_ts_tokens(node, row_start, row_end) ==
  IF node.end_position.row < row_start \/ node.start_position.row > row_end
  THEN <<>>
  ELSE IF Len(node.children) = 0
       THEN <<RawToken(node.start_position, node.end_position, node.kind)>>
       ELSE collect_ts_tokens_children(node.children, row_start, row_end)
\* for child in node.children(&mut cursor) { collect_ts_tokens(child, ...) }
collect_ts_tokens_children(children, row_start, row_end) ==
  IF children = <<>> THEN <<>>
  ELSE collect_ts_tokens(children[1], row_start, row_end)
         \o collect_ts_tokens_children(Tail(children), row_start, row_end)

\* for (sp, ep, kind) in raw { if ep.row < start || sp.row > end { continue }
\* tokens.push(Token {...}) }
RECURSIVE raw_to_tokens(_, _, _)
raw_to_tokens(raw, start, end) ==
  IF raw = <<>> THEN <<>>
  ELSE LET r == raw[1]
           rest == raw_to_tokens(Tail(raw), start, end)
       IN IF r.ep.row < start \/ r.sp.row > end
          THEN rest
          ELSE <<Token(Offset(r.sp.row, r.sp.column), Offset(r.ep.row, r.ep.column),
                       r.kind)>> \o rest

\* the tokens of the parse: none without a grammar for the tag or a tree
parsed_tokens(file, start, end, parsed) ==
  IF get_ts_language(file.language) /\ is_some(parsed)
  THEN raw_to_tokens(collect_ts_tokens(unwrap(parsed), start, end), start, end)
  ELSE <<>>

\* the token list request_tokenization emits for an open document
tokens_for_unguarded(file, line_start, line_end, parsed) ==
  \* faulty variant: no early return for a document without lines
  LET start == Min(line_start, saturating_sub(Len(file.lines), 1))
      end == Min(line_end, saturating_sub(Len(file.lines), 1))
      tokens == parsed_tokens(file, start, end, parsed)
  IN IF tokens = <<>>
     THEN IF file.lines = <<>>
          THEN <<Token(Offset(0, 0), Offset(0, 0), "untokenized")>>
          ELSE untokenized(file.lines, start, end)
     ELSE tokens
tokens_for(file, line_start, line_end, parsed) ==
  IF file.lines = <<>> THEN <<>>
  ELSE LET start == Min(line_start, saturating_sub(Len(file.lines), 1))
           end == Min(line_end, saturating_sub(Len(file.lines), 1))
           tokens == parsed_tokens(file, start, end, parsed)
       IN IF tokens = <<>> THEN untokenized(file.lines, start, end) ELSE tokens

TokenizationCommand(line_start, line_end, parsed, ret) ==
  [op |-> "request_tokenization", path |-> NoPath, num |-> line_start, content |-> <<>>,
   language |-> "", ret |-> ret, line_end |-> line_end, parsed |-> parsed]

request_tokenization(line_start, line_end, parsed) ==
  IF is_some(editorState)
  THEN /\ events' = <<Event("tokenization",
                            tokens_for(unwrap(editorState), line_start, line_end, parsed))>>
       /\ last' = TokenizationCommand(line_start, line_end, parsed, Ok(Unit))
       /\ UNCHANGED <<editorState, disk, dirs>>
  ELSE /\ last' = TokenizationCommand(line_start, line_end, parsed, Err(NoFileOpened))
       /\ events' = <<>>
       /\ UNCHANGED <<editorState, disk, dirs>>

\* ---------------------------------------------------- ingestion queue state
MaxAdds == 3         \* number of add_task calls made

Producers == {"p1", "p2"}
ReadyCallers == {"r1", "r2"}
QueuePaths == {"a", "b"}

NoHistory ==
  [completed |-> 0,     \* add_task calls that returned
   sent |-> 0,          \* messages sent by add_task calls
   waits |-> 0,         \* wait_for_task calls that returned
   latch_passed |-> 0,  \* ready calls that found the latch unset
   initial_fetches |-> 0,  \* fetch_tasks calls made by ready
   spawned |-> 0,       \* consumer loops spawned
   drains |-> <<>>,     \* the non-empty batches the consumer loop fetched
   first_idle |-> FALSE]  \* the first add_task found the consumer waiting,
                          \* the pending list empty and no wake pending

\* TaskPool::new(), READY_ALREADY_CALLED = false, no thread inside a call
QueueNew ==
  /\ READY_ALREADY_CALLED = FALSE
  /\ tasks = <<>>
  /\ tasks_lock = "free"
  /\ channel = 0
  /\ ppc = [p \in Producers |-> "idle"]
  /\ rpc = [r \in ReadyCallers |-> "idle"]
  /\ current_files = [r \in ReadyCallers |-> <<>>]
  /\ cpc = [r \in ReadyCallers |-> "none"]
  /\ new_files = [r \in ReadyCallers |-> <<>>]
  /\ dispatched = <<>>
  /\ added = <<>>
  /\ hist = NoHistory

ThreadsIdle ==
  /\ mutex = "free"
  /\ tpc = <<>>
  /\ targ = <<>>
  /\ tbase = None
  /\ seen = {}

\* ------------------------------------------- specification of the commands
\* Each action is one command, or one part of open_file or create_empty_file;
\* while such calls are between their parts, on the worker threads, the other
\* commands run.  The response and the events of a step are handed to the
\* webview before the next step is taken.
Delivered == last = NoCommand /\ events = <<>>

Deliver ==
  /\ ~Delivered
  /\ last' = NoCommand
  /\ events' = <<>>
  /\ UNCHANGED <<editorState, disk, dirs, opening, threadVars, queueVars>>

OpenFileRead ==
  /\ Delivered
  /\ BagCardinality(opening) < Cardinality(Callers)
  /\ \E path \in Paths : open_file_read(path)
  /\ UNCHANGED <<threadVars, queueVars>>
OpenFileStore ==
  /\ Delivered
  /\ \E call \in BagToSet(opening) : open_file_store(call)
  /\ UNCHANGED <<threadVars, queueVars>>
OpenFileEmit ==
  /\ Delivered
  /\ \E call \in BagToSet(opening) : open_file_emit(call)
  /\ UNCHANGED <<threadVars, queueVars>>
CreateEmptyFileWrite ==
  /\ Delivered
  /\ BagCardinality(opening) < Cardinality(Callers)
  /\ \E path \in Paths : \E io \in IoOutcomes(dirs, path) : create_empty_file_write(path, io)
  /\ UNCHANGED <<threadVars, queueVars>>
CreateEmptyFileStore ==
  /\ Delivered
  /\ \E call \in BagToSet(opening) : create_empty_file_store(call)
  /\ UNCHANGED <<threadVars, queueVars>>
CreateEmptyFileEmit ==
  /\ Delivered
  /\ \E call \in BagToSet(opening) : create_empty_file_emit(call)
  /\ UNCHANGED <<threadVars, queueVars>>
ReadLine ==
  /\ Delivered
  /\ \E num \in Idx : read_line(num)
  /\ UNCHANGED <<opening, threadVars, queueVars>>
WriteLine ==
  /\ Delivered
  /\ \E num \in Idx, content \in Contents : write_line(num, content)
  /\ UNCHANGED <<opening, threadVars, queueVars>>
InsertLine ==
  /\ Delivered
  /\ \E num \in Idx, content \in Contents : insert_line(num, content)
  /\ UNCHANGED <<opening, threadVars, queueVars>>
RemoveLine ==
  /\ Delivered
  /\ \E num \in Idx : remove_line(num)
  /\ UNCHANGED <<opening, threadVars, queueVars>>
SaveBuffer ==
  /\ Delivered
  /\ \E io \in SaveOutcomes : save_buffer(io)
  /\ UNCHANGED <<opening, threadVars, queueVars>>
ChangeLanguage ==
  /\ Delivered
  /\ \E language \in Languages : change_language(language)
  /\ UNCHANGED <<opening, threadVars, queueVars>>
CloseFile == Delivered /\ close_file /\ UNCHANGED <<opening, threadVars, queueVars>>
\* the parser runs only for an open document with lines whose tag has a
\* grammar; it fails or returns a tree over the text
ParserOutcomes ==
  IF is_some(editorState) /\ unwrap(editorState).lines # <<>>
       /\ get_ts_language(unwrap(editorState).language)
  THEN {None} \cup {Some(t) : t \in Trees(unwrap(editorState).lines)}
  ELSE {None}

RequestTokenization ==
  /\ Delivered
  /\ \E line_start \in Idx, line_end \in Idx, parsed \in ParserOutcomes :
       request_tokenization(line_start, line_end, parsed)
  /\ UNCHANGED <<opening, threadVars, queueVars>>
CopyPath ==
  /\ Delivered
  /\ \E src \in Paths, dest \in Paths : \E io \in CopyOutcomes(dirs, dest) : copy_path(src, dest, io)
  /\ UNCHANGED <<opening, threadVars, queueVars>>
MovePath ==
  /\ Delivered
  /\ \E src \in Paths, dest \in Paths : \E io \in MoveOutcomes(dirs, dest) : move_path(src, dest, io)
  /\ UNCHANGED <<opening, threadVars, queueVars>>
DeletePath ==
  /\ Delivered
  /\ \E path \in Paths \cup Dirs : \E io \in DeleteOutcomes(disk, path) : delete_path(path, io)
  /\ UNCHANGED <<opening, threadVars, queueVars>>

\* at start no file exists, the directories do, and the slot is empty
Init ==
  /\ editorState = None
  /\ disk = [p \in Paths |-> None]
  /\ dirs = Dirs
  /\ events = <<>>
  /\ last = NoCommand
  /\ opening = EmptyBag
  /\ ThreadsIdle
  /\ QueueNew

Next ==
  \/ OpenFileRead
  \/ OpenFileStore
  \/ OpenFileEmit
  \/ CreateEmptyFileWrite
  \/ CreateEmptyFileStore
  \/ CreateEmptyFileEmit
  \/ ReadLine
  \/ WriteLine
  \/ InsertLine
  \/ RemoveLine
  \/ SaveBuffer
  \/ ChangeLanguage
  \/ CloseFile
  \/ RequestTokenization
  \/ CopyPath
  \/ MovePath
  \/ DeletePath
  \/ Deliver

vars == <<editorState, disk, dirs, events, last, opening, mutex, tpc, targ, tbase, seen,
          READY_ALREADY_CALLED, tasks, tasks_lock, channel, ppc, rpc, current_files,
          cpc, new_files, dispatched, added, hist>>

Spec == Init /\ [][Next]_vars

\* -------------------------------------------------- open_file of every file
\* open_file applied, again and again, to a file of any content up to the
\* bound and to a path without a file.
InitOpen ==
  /\ editorState = None
  /\ disk \in {[p \in Paths |-> IF p = PathPy THEN Some(c) ELSE None] : c \in FileContents}
  /\ dirs = {}
  /\ events = <<>>
  /\ last = NoCommand
  /\ opening = EmptyBag
  /\ ThreadsIdle
  /\ QueueNew

NextOpen ==
  \/ OpenFileRead
  \/ OpenFileStore
  \/ OpenFileEmit
  \/ Deliver

SpecOpen == InitOpen /\ [][NextOpen]_vars

\* ------------------------------------------ the commands on one document
\* The line commands, change_language and request_tokenization are functions
\* of the slot, each under the mutex from start to end: here they are applied
\* to an empty slot and to every document of each path and tag that has at
\* most one line for each index, for every index, content, range and outcome
\* of the parser.
Docs ==
  {FileState(p, file_name(p), recompute_size(lines), language, lines) :
     p \in Paths,
     language \in {detect_language_from_extension(PathPy),
                   detect_language_from_extension(PathOther)} \cup Languages,
     lines \in SeqsUpTo(Contents, MaxIdx + 1)}

InitLines ==
  /\ editorState \in {None} \cup {Some(f) : f \in Docs}
  /\ disk = [p \in Paths |-> Some(<<>>)]
  /\ dirs = Dirs
  /\ events = <<>>
  /\ last = NoCommand
  /\ opening = EmptyBag
  /\ ThreadsIdle
  /\ QueueNew

NextLines ==
  \/ ReadLine
  \/ WriteLine
  \/ InsertLine
  \/ RemoveLine
  \/ ChangeLanguage
  \/ RequestTokenization
  \/ Deliver

SpecLines == InitLines /\ [][NextLines]_vars


\* ------------------------------------- concurrent callers of one document
\* Commands run on a pool of worker threads.  write_line and read_line take
\* the EditorState mutex in their first statement and hold the guard until
\* they return; here each statement of write_line is one step.
Writers == {"w1", "w2"}
Reader == "rd"
Threads == Writers \cup {Reader}
ThreadContents == {<<"b">>, <<"b", "b">>}
BaseLineContents == {<<>>, <<"b">>}

\* documents as create_empty_file and line commands leave them
BaseDocs ==
  {FileState(PathOther, file_name(PathOther), recompute_size(lines),
             detect_language_from_extension(PathOther), lines) :
     lines \in SeqsUpTo(BaseLineContents, MaxLines)}

InitWriters ==
  /\ tbase \in {Some(f) : f \in BaseDocs}
  /\ editorState = tbase
  /\ opening = EmptyBag
  /\ disk = [p \in Paths |-> Some(<<>>)]
  /\ dirs = Dirs
  /\ events = <<>>
  /\ last = NoCommand
  /\ mutex = "free"
  /\ tpc = [t \in Threads |-> "start"]
  /\ targ \in {a \in [Threads -> [num : Idx, content : ThreadContents]] :
                 /\ a["w1"].num # a["w2"].num
                 /\ a[Reader].content = <<"b">>}
  /\ seen = {}
  /\ QueueNew

\* state.0.lock(): blocks while another guard is alive
lock_available_unchecked(t) == TRUE  \* faulty variant: no mutual exclusion
lock_available(t) == mutex \in {"free", "poisoned"}

\* state.0.lock().unwrap(): a poisoned mutex panics the caller
Lock(t) ==
  /\ tpc[t] = "start"
  /\ lock_available(t)
  /\ IF mutex = "poisoned"
     THEN /\ tpc' = [tpc EXCEPT ![t] = "panicked"]
          /\ UNCHANGED mutex
     ELSE /\ tpc' = [tpc EXCEPT ![t] = "locked"]
          /\ mutex' = t
  /\ UNCHANGED <<editorState, disk, dirs, events, last, targ, tbase, seen, opening, queueVars>>

\* if let Some(file) = guard.as_mut() { if num >= len { resize } ... }
WriteLineResize(t) ==
  /\ t \in Writers
  /\ tpc[t] = "locked"
  /\ IF is_some(editorState)
     THEN /\ editorState' = Some(write_line_resize(unwrap(editorState), targ[t].num))
          /\ tpc' = [tpc EXCEPT ![t] = "resized"]
     ELSE /\ tpc' = [tpc EXCEPT ![t] = "failed"]
          /\ UNCHANGED editorState
  /\ UNCHANGED <<disk, dirs, events, last, mutex, targ, tbase, seen, opening, queueVars>>

\* file.lines[num] = content.clone(): an index out of range panics, and the
\* guard dropped by the panic poisons the mutex
WriteLineAssign(t) ==
  /\ t \in Writers
  /\ tpc[t] = "resized"
  /\ IF targ[t].num < Len(lines_of_slot(editorState))
     THEN /\ editorState' = Some(write_line_assign(unwrap(editorState), targ[t].num,
                                                    targ[t].content))
          /\ tpc' = [tpc EXCEPT ![t] = "assigned"]
          /\ UNCHANGED mutex
     ELSE /\ tpc' = [tpc EXCEPT ![t] = "panicked"]
          /\ mutex' = "poisoned"
          /\ UNCHANGED editorState
  /\ UNCHANGED <<disk, dirs, events, last, targ, tbase, seen, opening, queueVars>>

WriteLineSize(t) ==
  /\ t \in Writers
  /\ tpc[t] = "assigned"
  /\ editorState' = Some(update_size(unwrap(editorState)))
  /\ tpc' = [tpc EXCEPT ![t] = "sized"]
  /\ UNCHANGED <<disk, dirs, events, last, mutex, targ, tbase, seen, opening, queueVars>>

WriteLineEmit(t) ==
  /\ t \in Writers
  /\ tpc[t] = "sized"
  /\ events' = Append(events, Event("file-updated",
                                    [line |-> targ[t].num, content |-> targ[t].content]))
  /\ tpc' = [tpc EXCEPT ![t] = "emitted"]
  /\ UNCHANGED <<editorState, disk, dirs, last, mutex, targ, tbase, seen, opening, queueVars>>

\* return: the guard is dropped
WriteLineReturn(t) ==
  /\ t \in Writers
  /\ tpc[t] \in {"emitted", "failed"}
  /\ mutex' = IF mutex = "poisoned" THEN mutex ELSE "free"
  /\ tpc' = [tpc EXCEPT ![t] = "done"]
  /\ UNCHANGED <<editorState, disk, dirs, events, last, targ, tbase, seen, opening, queueVars>>

\* the body of read_line, and its return; the reader calls read_line again
\* and again
ReadLineRead(t) ==
  /\ t = Reader
  /\ tpc[t] = "locked"
  /\ seen' = seen \cup {[slot |-> editorState,
                         ret |-> read_line_result(editorState, targ[t].num)]}
  /\ tpc' = [tpc EXCEPT ![t] = "read"]
  /\ UNCHANGED <<editorState, disk, dirs, events, last, mutex, targ, tbase, opening, queueVars>>

ReadLineReturn(t) ==
  /\ t = Reader
  /\ tpc[t] = "read"
  /\ mutex' = IF mutex = "poisoned" THEN mutex ELSE "free"
  /\ tpc' = [tpc EXCEPT ![t] = "start"]
  /\ UNCHANGED <<editorState, disk, dirs, events, last, targ, tbase, seen, opening, queueVars>>

NextWriters ==
  \/ \E t \in Threads : Lock(t)
  \/ \E t \in Writers : WriteLineResize(t)
  \/ \E t \in Writers : WriteLineAssign(t)
  \/ \E t \in Writers : WriteLineSize(t)
  \/ \E t \in Writers : WriteLineEmit(t)
  \/ \E t \in Writers : WriteLineReturn(t)
  \/ ReadLineRead(Reader)
  \/ ReadLineReturn(Reader)

SpecWriters == InitWriters /\ [][NextWriters]_vars

\* ---------------------------------------------------------- ingestion queue
\* add_task holds the tasks mutex from its first statement until it returns;
\* its push and its send are separate steps.  fetch_tasks locks, drains and
\* unlocks in one statement.  process_queued_file only prints the path.
\* notifier.send(()): the channel is unbounded and keeps every message
send_unary(ch) == IF ch = 0 THEN 1 ELSE ch      \* faulty variant: at most one pending wake
send_dropped(ch) == ch                          \* faulty variant: the message is not sent
send(ch) == ch + 1

\* tasks.drain(..).collect(): the whole list, in order, and the list left empty
drained_reversed(list) == [i \in 1..Len(list) |-> list[Len(list) + 1 - i]]  \* faulty variant: reversed order
drained(list) == list
after_drain_kept(list) == list                  \* faulty variant: the list is copied, not drained
after_drain(list) == <<>>

\* for file_path in files { process_queued_file(&file_path).await }
first_file_from_end(files) == files[Len(files)] \* faulty variant: iterates from the end
first_file(files) == files[1]
rest_files(files) == Tail(files)

\* READY_ALREADY_CALLED.swap(true, SeqCst): the value before the swap
swap_old_ignored(flag) == FALSE                 \* faulty variant: the latch is not tested
swap_old(flag) == flag

\* the consumer loop is blocked in wait_for_task with nothing to wake it
ConsumerIdle ==
  /\ \E c \in ReadyCallers : cpc[c] = "wait"
  /\ tasks = <<>>
  /\ channel = 0

InitQueue ==
  /\ editorState = None
  /\ opening = EmptyBag
  /\ disk = [p \in Paths |-> IF p = PathPy THEN Some(<<>>) ELSE None]
  /\ dirs = {}
  /\ events = <<>>
  /\ last = NoCommand
  /\ ThreadsIdle
  /\ QueueNew

AddTaskPush(p, path) ==
  /\ ppc[p] = "idle"
  /\ Len(added) < MaxAdds
  /\ tasks_lock = "free"
  /\ tasks_lock' = p
  /\ tasks' = Append(tasks, path)
  /\ ppc' = [ppc EXCEPT ![p] = "send"]
  /\ added' = Append(added, path)
  /\ hist' = [hist EXCEPT !.first_idle = IF added = <<>> THEN ConsumerIdle ELSE @]
  /\ UNCHANGED <<READY_ALREADY_CALLED, channel, rpc, current_files, cpc, new_files,
                 dispatched, docVars, threadVars>>

\* let _ = self.notifier.send(()); the tasks guard is still held
AddTaskSend(p) ==
  /\ ppc[p] = "send"
  /\ channel' = send(channel)
  /\ ppc' = [ppc EXCEPT ![p] = "return"]
  /\ hist' = [hist EXCEPT !.sent = @ + 1]
  /\ UNCHANGED <<READY_ALREADY_CALLED, tasks, tasks_lock, rpc, current_files, cpc,
                 new_files, dispatched, added, docVars, threadVars>>

\* the end of add_task: the tasks guard is dropped
AddTaskReturn(p) ==
  /\ ppc[p] = "return"
  /\ tasks_lock' = "free"
  /\ ppc' = [ppc EXCEPT ![p] = "idle"]
  /\ hist' = [hist EXCEPT !.completed = @ + 1]
  /\ UNCHANGED <<READY_ALREADY_CALLED, tasks, channel, rpc, current_files, cpc,
                 new_files, dispatched, added, docVars, threadVars>>

ReadySwap(r) ==
  /\ rpc[r] = "idle"
  /\ READY_ALREADY_CALLED' = TRUE
  /\ IF swap_old(READY_ALREADY_CALLED)
     THEN /\ rpc' = [rpc EXCEPT ![r] = "return"]
          /\ UNCHANGED hist
     ELSE /\ rpc' = [rpc EXCEPT ![r] = "fetch"]
          /\ hist' = [hist EXCEPT !.latch_passed = @ + 1]
  /\ UNCHANGED <<tasks, tasks_lock, channel, ppc, current_files, cpc, new_files,
                 dispatched, added, docVars, threadVars>>

ReadyReturnEarly(r) ==
  /\ rpc[r] = "return"
  /\ rpc' = [rpc EXCEPT ![r] = "idle"]
  /\ UNCHANGED <<READY_ALREADY_CALLED, tasks, tasks_lock, channel, ppc, current_files,
                 cpc, new_files, dispatched, added, hist, docVars, threadVars>>

ReadyFetch(r) ==
  /\ rpc[r] = "fetch"
  /\ tasks_lock = "free"
  /\ current_files' = [current_files EXCEPT ![r] = drained(tasks)]
  /\ tasks' = after_drain(tasks)
  /\ rpc' = [rpc EXCEPT ![r] = "dispatch"]
  /\ hist' = [hist EXCEPT !.initial_fetches = @ + 1]
  /\ UNCHANGED <<READY_ALREADY_CALLED, tasks_lock, channel, ppc, cpc, new_files,
                 dispatched, added, docVars, threadVars>>

ReadyDispatch(r) ==
  /\ rpc[r] = "dispatch"
  /\ current_files[r] # <<>>
  /\ dispatched' = Append(dispatched, first_file(current_files[r]))
  /\ current_files' = [current_files EXCEPT ![r] = rest_files(@)]
  /\ UNCHANGED <<READY_ALREADY_CALLED, tasks, tasks_lock, channel, ppc, rpc, cpc,
                 new_files, added, hist, docVars, threadVars>>

\* tokio::spawn of the consumer loop, then ready returns
ReadySpawn(r) ==
  /\ rpc[r] = "dispatch"
  /\ current_files[r] = <<>>
  /\ cpc' = [cpc EXCEPT ![r] = "wait"]
  /\ rpc' = [rpc EXCEPT ![r] = "idle"]
  /\ hist' = [hist EXCEPT !.spawned = @ + 1]
  /\ UNCHANGED <<READY_ALREADY_CALLED, tasks, tasks_lock, channel, ppc, current_files,
                 new_files, dispatched, added, docVars, threadVars>>

\* pool.wait_for_task(): rx.recv() blocks until a message is in the channel
ConsumerWait(c) ==
  /\ cpc[c] = "wait"
  /\ channel > 0
  /\ channel' = channel - 1
  /\ cpc' = [cpc EXCEPT ![c] = "fetch"]
  /\ hist' = [hist EXCEPT !.waits = @ + 1]
  /\ UNCHANGED <<READY_ALREADY_CALLED, tasks, tasks_lock, ppc, rpc, current_files,
                 new_files, dispatched, added, docVars, threadVars>>

ConsumerFetch(c) ==
  /\ cpc[c] = "fetch"
  /\ tasks_lock = "free"
  /\ new_files' = [new_files EXCEPT ![c] = drained(tasks)]
  /\ tasks' = after_drain(tasks)
  /\ cpc' = [cpc EXCEPT ![c] = "dispatch"]
  /\ hist' = [hist EXCEPT !.drains = IF tasks = <<>> THEN @ ELSE Append(@, drained(tasks))]
  /\ UNCHANGED <<READY_ALREADY_CALLED, tasks_lock, channel, ppc, rpc, current_files,
                 dispatched, added, docVars, threadVars>>

ConsumerDispatch(c) ==
  /\ cpc[c] = "dispatch"
  /\ new_files[c] # <<>>
  /\ dispatched' = Append(dispatched, first_file(new_files[c]))
  /\ new_files' = [new_files EXCEPT ![c] = rest_files(@)]
  /\ UNCHANGED <<READY_ALREADY_CALLED, tasks, tasks_lock, channel, ppc, rpc,
                 current_files, cpc, added, hist, docVars, threadVars>>

ConsumerLoop(c) ==
  /\ cpc[c] = "dispatch"
  /\ new_files[c] = <<>>
  /\ cpc' = [cpc EXCEPT ![c] = "wait"]
  /\ UNCHANGED <<READY_ALREADY_CALLED, tasks, tasks_lock, channel, ppc, rpc,
                 current_files, new_files, dispatched, added, hist, docVars, threadVars>>

NextQueue ==
  \/ \E p \in Producers, path \in QueuePaths : AddTaskPush(p, path)
  \/ \E p \in Producers : AddTaskSend(p)
  \/ \E p \in Producers : AddTaskReturn(p)
  \/ \E r \in ReadyCallers : ReadySwap(r)
  \/ \E r \in ReadyCallers : ReadyReturnEarly(r)
  \/ \E r \in ReadyCallers : ReadyFetch(r)
  \/ \E r \in ReadyCallers : ReadyDispatch(r)
  \/ \E r \in ReadyCallers : ReadySpawn(r)
  \/ \E c \in ReadyCallers : ConsumerWait(c)
  \/ \E c \in ReadyCallers : ConsumerFetch(c)
  \/ \E c \in ReadyCallers : ConsumerDispatch(c)
  \/ \E c \in ReadyCallers : ConsumerLoop(c)

SpecQueue == InitQueue /\ [][NextQueue]_vars

\* every thread that is inside a call keeps running; whether and when ready
\* and add_task are called is up to the callers
FairQueue ==
  /\ \A p \in Producers : WF_vars(AddTaskSend(p)) /\ WF_vars(AddTaskReturn(p))
  /\ \A r \in ReadyCallers :
       /\ WF_vars(ReadyReturnEarly(r))
       /\ WF_vars(ReadyFetch(r))
       /\ WF_vars(ReadyDispatch(r))
       /\ WF_vars(ReadySpawn(r))
       /\ WF_vars(ConsumerWait(r))
       /\ WF_vars(ConsumerFetch(r))
       /\ WF_vars(ConsumerDispatch(r))
       /\ WF_vars(ConsumerLoop(r))

SpecQueueFair == SpecQueue /\ FairQueue

\* ------------------------------------------------ properties of the commands
\* C1: whenever a document is open, its stored size is the sum of the byte
\* lengths of its lines plus max(0, line_count - 1) -- also right after open
\* of a file with CRLF line ends, and after change_language from there.
C1_SizeMatchesLines ==
  is_some(editorState) =>
    unwrap(editorState).size
      = sum_len(lines_of(editorState)) + Max(0, Len(lines_of(editorState)) - 1)

\* C2, as claimed: whenever a document is open it has at least one line.
C2_AtLeastOneLine ==
  is_some(editorState) => Len(lines_of(editorState)) >= 1

\* the steps of a call of open_file or create_empty_file: its first part goes
\* on, it stores its document, it returns
Begins(call) == opening' = opening (+) SetToBag({call})
Stores(call) ==
  /\ BagIn(call, opening)
  /\ call.pc # "stored"
  /\ opening' = (opening (-) SetToBag({call})) (+) SetToBag({[call EXCEPT !.pc = "stored"]})
Returns(call) ==
  /\ BagIn(call, opening)
  /\ call.pc = "stored"
  /\ opening' = opening (-) SetToBag({call})
StoresDocument == \E call \in BagToSet(opening) : Stores(call)

\* C2, amended: an open document with zero lines arises only from remove_line
\* on a one-line document and is otherwise one that had zero lines before the
\* step; the document open_file or create_empty_file stores and the document
\* after a write_line or insert_line has at least one line.
C2_OnlyRemoveLineEmpties ==
  [][/\ (is_some(editorState') /\ Len(lines_of(editorState')) = 0)
          => \/ /\ last'.op = "remove_line"
                /\ is_some(editorState)
                /\ Len(lines_of(editorState)) = 1
             \/ /\ is_some(editorState)
                /\ Len(lines_of(editorState)) = 0
     /\ (StoresDocument \/ (last'.op \in {"write_line", "insert_line"} /\ last'.ret.ok))
          => /\ is_some(editorState')
             /\ Len(lines_of(editorState')) >= 1]_vars

C2_Witness ==
  /\ is_some(editorState)
  /\ Len(lines_of(editorState)) = 0
  /\ last.op = "remove_line"
  /\ last.num = 0

\* C9: write_line(n, content) on an open document succeeds; afterwards
\* line_count = max(old line_count, n+1), read_line(n) = content, the old
\* lines other than n are unchanged and the lines from the old line_count up
\* to n-1 are empty.
C9_WriteLineEffect ==
  [][(last'.op = "write_line" /\ is_some(editorState))
       => LET n == last'.num
              old == lines_of(editorState)
              new == lines_of(editorState')
          IN /\ last'.ret = Ok(Unit)
             /\ is_some(editorState')
             /\ Len(new) = Max(Len(old), n + 1)
             /\ read_line_result(editorState', n) = Ok(<<last'.content>>)
             /\ \A i \in 0..(Len(old) - 1) : i # n => new[i + 1] = old[i + 1]
             /\ \A i \in Len(old)..(n - 1) : new[i + 1] = <<>>]_vars

\* a write past the end that padded: line 0 is the padding, line 1 the content
C9_Witness ==
  /\ last.op = "write_line"
  /\ last.ret.ok
  /\ last.num = 1
  /\ last.content = <<"b">>
  /\ is_some(editorState)
  /\ lines_of(editorState) = << <<>>, <<"b">> >>
  /\ unwrap(editorState).size = 2

\* C10: insert_line(n, content) with n greater than the line count pads with
\* empty lines up to index n: afterwards line_count = n+1, the lines from the
\* old line_count up to n-1 are empty and line n = content.
C10_InsertLinePads ==
  [][(last'.op = "insert_line" /\ is_some(editorState)
        /\ last'.num > Len(lines_of(editorState)))
       => LET n == last'.num
              old == lines_of(editorState)
              new == lines_of(editorState')
          IN /\ Len(new) = n + 1
             /\ \A i \in Len(old)..(n - 1) : new[i + 1] = <<>>
             /\ new[n + 1] = last'.content]_vars


\* C11: remove_line(n) with n >= line_count on an open document is a no-op: it
\* returns success, emits no event and leaves the document (lines, line_count,
\* size, language, path) and the file unchanged.
C11_RemovePastEndNoOp ==
  [][(last'.op = "remove_line" /\ is_some(editorState)
        /\ last'.num >= Len(lines_of(editorState)))
       => /\ last'.ret = Ok(Unit)
          /\ events' = <<>>
          /\ editorState' = editorState
          /\ disk' = disk]_vars

\* remove_line(2) was a no-op on a document of two lines
C11_Witness ==
  /\ last.op = "remove_line"
  /\ last.ret = Ok(Unit)
  /\ last.num = 2
  /\ is_some(editorState)
  /\ Len(lines_of(editorState)) = 2
  /\ events = <<>>

\* C12: read_line(n) returns line n when n < line_count and the empty string,
\* as a success, when n >= line_count; with no document open it fails with
\* "no file opened"; it never changes the slot and never emits an event.
C12_ReadLine ==
  [][last'.op = "read_line"
       => LET n == last'.num IN
          /\ (is_some(editorState) /\ n < Len(lines_of(editorState)))
               => last'.ret = Ok(<<lines_of(editorState)[n + 1]>>)
          /\ (is_some(editorState) /\ n >= Len(lines_of(editorState)))
               => last'.ret = Ok(<< <<>> >>)
          /\ editorState = None => last'.ret = Err(NoFileOpened)
          /\ editorState' = editorState
          /\ events' = <<>>
          /\ disk' = disk]_vars

\* a read past the end of a document whose last line is not empty returned
\* the empty string
C12_Witness ==
  /\ last.op = "read_line"
  /\ is_some(editorState)
  /\ Len(lines_of(editorState)) = 1
  /\ lines_of(editorState)[1] = <<"b">>
  /\ last.num = 1
  /\ last.ret = Ok(<< <<>> >>)

\* C13: with the slot empty, write_line, insert_line, remove_line,
\* change_language, save_buffer and request_tokenization fail with
\* "no file opened", leave the slot empty and the file alone and emit no
\* event; create_empty_file fails only when the directory or the file cannot
\* be made, and open_file fails only when the file cannot be read as text.
C13_EmptySlotNotFound ==
  [][editorState = None
       => /\ last'.op \in {"write_line", "insert_line", "remove_line", "change_language",
                           "save_buffer", "request_tokenization"}
               => /\ last'.ret = Err(NoFileOpened)
                  /\ editorState' = None
                  /\ events' = <<>>
                  /\ disk' = disk
          /\ last'.op = "create_empty_file"
               => \/ last'.ret.ok
                  \/ /\ last'.ret = Err(IoError)
                     /\ last'.io # "ok"
          /\ last'.op = "open_file"
               => \/ last'.ret.ok
                  \/ /\ last'.ret = Err(IoError)
                     /\ read_to_string(disk, last'.path) = None]_vars

\* save_buffer failed on the slot emptied by close_file after a document had
\* been created
C13_Witness ==
  /\ editorState = None
  /\ is_some(disk[PathPy])
  /\ last.op = "save_buffer"
  /\ last.ret = Err(NoFileOpened)
  /\ events = <<>>

\* C14: round trip: right after a successful save_buffer, open_file of the
\* document's path reads the file and builds the line sequence the document
\* holds, empty lines included, whatever open, create, write_line, insert_line
\* and remove_line calls built the document.
C14_SaveOpenRoundTrip ==
  (last.op = "save_buffer" /\ last.ret.ok /\ is_some(editorState))
    => LET path == unwrap(editorState).path
           contents == read_to_string(disk, path)
       IN /\ is_some(contents)
          /\ open_file_state(path, unwrap(contents)).lines = lines_of(editorState)

\* the number of '\n' bytes of a text
newlines(bytes) == Cardinality({i \in 1..Len(bytes) : bytes[i] = LF})

\* C15, as claimed: opening a file that ends in a newline and has N content
\* lines (N newline-terminated lines) stores a document of exactly N lines
\* and returns N as line_count.
C15_TrailingNewlineNLines ==
  [][\A call \in BagToSet(opening) :
       (call.op = "open_file" /\ call.contents # <<>> /\ Last(call.contents) = LF)
         => /\ Stores(call) => Len(lines_of(editorState')) = newlines(call.contents)
            /\ Returns(call)
                 => unwrap(last'.ret.val).line_count = newlines(call.contents)]_vars

\* C15, amended: the text open_file works on is the file; for a file that
\* ends in a newline it stores a document of N+1 lines, the last one empty,
\* and returns N+1 as line_count.
C15_TrailingNewlineEmptyLastLine ==
  [][/\ \A call \in BagToSet(opening') :
          (Begins(call) /\ call.op = "open_file")
            => call.contents = unwrap(disk[call.path])
     /\ \A call \in BagToSet(opening) :
          (call.op = "open_file" /\ call.contents # <<>> /\ Last(call.contents) = LF)
            => /\ Stores(call)
                    => /\ Len(lines_of(editorState')) = newlines(call.contents) + 1
                       /\ Last(lines_of(editorState')) = <<>>
               /\ Returns(call)
                    => /\ last'.op = "open_file"
                       /\ unwrap(last'.ret.val).line_count = newlines(call.contents) + 1]_vars

\* the file "a\n", one content line, stored as two lines
C15_Witness ==
  /\ BagIn(Call("open_file", "stored", PathPy, <<"a", LF>>), opening)
  /\ lines_of(editorState) = << <<"a">>, <<>> >>

SamplePyLines ==
  << <<"d", "e", "f", " ", "f", "(", ")", ":">>,
     <<" ", " ", " ", " ", "p", "a", "s", "s">>,
     <<>> >>

\* C16, as claimed: open("a.py") on the file "def f():\n    pass\n" installs
\* lines ["def f():", "    pass", ""], language "python", line_count 3 and
\* size 19, and returns metadata with those values.
C16_OpenSamplePy19 ==
  [][\A call \in BagToSet(opening) :
       (call.op = "open_file" /\ call.path = PathPy /\ call.contents = SamplePy)
         => /\ Stores(call)
                 => editorState' = Some(FileState(PathPy, PathPy, 19, "python", SamplePyLines))
            /\ Returns(call)
                 => last'.ret = Ok(<<FileMetadata(PathPy, PathPy, 19, "python", 3)>>)]_vars

\* C16, amended: the size is 18, the number of bytes of the file (8 + 1 + 8 + 1).
C16_OpenSamplePy18 ==
  [][\A call \in BagToSet(opening) :
       (call.op = "open_file" /\ call.path = PathPy /\ call.contents = SamplePy)
         => /\ Stores(call)
                 => editorState' = Some(FileState(PathPy, PathPy, 18, "python", SamplePyLines))
            /\ Returns(call)
                 => /\ last'.ret = Ok(<<FileMetadata(PathPy, PathPy, 18, "python", 3)>>)
                    /\ events' = <<Event("file-opened",
                                         FileMetadata(PathPy, PathPy, 18, "python", 3))>>]_vars

C16_Witness ==
  /\ last.op = "open_file"
  /\ last.path = PathPy
  /\ last.ret = Ok(<<FileMetadata(PathPy, PathPy, 18, "python", 3)>>)
  /\ disk[PathPy] = Some(SamplePy)
  /\ editorState = Some(FileState(PathPy, PathPy, 18, "python", SamplePyLines))

\* C17, as claimed: every command that mutates the slot (a successful open,
\* create, write_line, insert_line or change_language, a remove_line that
\* removes a line, a close of an open document) and every completed
\* request_tokenization emits exactly one event; every other call (read_line,
\* save_buffer, remove_line past the end, a call that fails) emits none.
C17_OneEventPerMutation ==
  [][LET emitting ==
           \/ /\ last'.op \in {"open_file", "create_empty_file", "write_line", "insert_line",
                               "change_language", "request_tokenization"}
              /\ last'.ret.ok
           \/ /\ last'.op = "remove_line"
              /\ is_some(editorState)
              /\ last'.num < Len(lines_of(editorState))
           \/ /\ last'.op = "close_file"
              /\ is_some(editorState)
     IN Len(events') = IF emitting THEN 1 ELSE 0]_vars

\* C17, amended: close_file emits no event, also when it clears an open
\* document; the other commands emit as claimed, each its own event.
C17_OneEventExceptClose ==
  [][LET removing ==
           /\ last'.op = "remove_line"
           /\ is_some(editorState)
           /\ last'.num < Len(lines_of(editorState))
         name ==
           CASE last'.op \in {"open_file", "create_empty_file"} /\ last'.ret.ok -> "file-opened"
             [] last'.op \in {"write_line", "insert_line"} /\ last'.ret.ok -> "file-updated"
             [] removing -> "file-updated"
             [] last'.op = "change_language" /\ last'.ret.ok -> "language-changed"
             [] last'.op = "request_tokenization" /\ last'.ret.ok -> "tokenization"
             [] OTHER -> "none"
     IN IF name = "none"
        THEN events' = <<>>
        ELSE Len(events') = 1 /\ events'[1].name = name]_vars

\* close_file cleared the slot and emitted nothing, after a document had been
\* created and saved
C17_Witness ==
  /\ last.op = "close_file"
  /\ editorState = None
  /\ events = <<>>
  /\ disk[PathOther] = Some(<<>>)

\* C18: tokenization fallback: on a document of L >= 1 lines whose language
\* tag has no grammar, request_tokenization(s, e) succeeds, leaves the document
\* unchanged and emits one tokenization event; its list holds one token for
\* each row from min(s, L-1) to min(e, L-1), in ascending row order, from
\* (row, 0) to (row, length of the line), of kind "untokenized"; for the range
\* [0,2] on a document of 3 lines these are 3 tokens.
C18_FallbackTokens ==
  [][(last'.op = "request_tokenization" /\ is_some(editorState)
        /\ Len(lines_of(editorState)) >= 1
        /\ ~get_ts_language(unwrap(editorState).language))
       => LET lines == lines_of(editorState)
              s == Min(last'.num, Len(lines) - 1)
              e == Min(last'.line_end, Len(lines) - 1)
              rows == IF e >= s THEN e - s + 1 ELSE 0
          IN /\ last'.ret = Ok(Unit)
             /\ editorState' = editorState
             /\ Len(events') = 1
             /\ events'[1].name = "tokenization"
             /\ Len(events'[1].payload) = rows
             /\ \A i \in 1..rows :
                  events'[1].payload[i]
                    = [start_offset |-> [row |-> s + i - 1, col |-> 0],
                       end_offset |-> [row |-> s + i - 1, col |-> Len(lines[s + i])],
                       kind |-> "untokenized"]
             /\ (last'.num = 0 /\ last'.line_end = 2 /\ Len(lines) = 3) => rows = 3]_vars

\* the range [0,2] on a document of three lines with the tag "xy": three tokens
C18_Witness ==
  /\ last.op = "request_tokenization"
  /\ last.ret.ok
  /\ last.num = 0
  /\ last.line_end = 2
  /\ is_some(editorState)
  /\ unwrap(editorState).language = "xy"
  /\ Len(lines_of(editorState)) = 3
  /\ Len(events) = 1
  /\ Len(events[1].payload) = 3
  /\ events[1].payload[3].kind = "untokenized"

\* C19: request_tokenization on an open document with zero lines, for any
\* range and any language tag, succeeds, emits one tokenization event with an
\* empty token list and leaves the document unchanged.
C19_EmptyDocumentNoTokens ==
  [][(last'.op = "request_tokenization" /\ is_some(editorState)
        /\ Len(lines_of(editorState)) = 0)
       => /\ last'.ret = Ok(Unit)
          /\ events' = <<Event("tokenization", <<>>)>>
          /\ editorState' = editorState
          /\ disk' = disk]_vars

\* a zero-line document with a tag that has a grammar, asked for rows 1..2
C19_Witness ==
  /\ last.op = "request_tokenization"
  /\ last.ret.ok
  /\ last.num = 1
  /\ last.line_end = 2
  /\ is_some(editorState)
  /\ lines_of(editorState) = <<>>
  /\ unwrap(editorState).language = "python"
  /\ events = <<Event("tokenization", <<>>)>>

\* C20: open_file never rejects a file for its bytes: whenever the file
\* exists, open_file succeeds, has installed the document and emits
\* file-opened, also when the bytes are not valid UTF-8.
C20_OpenNeverRejectsBytes ==
  [][(last'.op = "open_file" /\ is_some(disk[last'.path]))
       => /\ last'.ret.ok
          /\ is_some(editorState')
          /\ events' = <<Event("file-opened", unwrap(last'.ret.val))>>]_vars

\* C21: insert_line(n, content) with n <= line_count on an open document is a
\* true insert: it succeeds, line_count grows by one, line n is content, the
\* lines before n are unchanged and every old line i >= n is now line i+1; the
\* one event emitted is file-updated with line n, the content and the new
\* line_count as totalLines.
C21_InsertLineShifts ==
  [][(last'.op = "insert_line" /\ is_some(editorState)
        /\ last'.num <= Len(lines_of(editorState)))
       => LET n == last'.num
              old == lines_of(editorState)
              new == lines_of(editorState')
          IN /\ last'.ret = Ok(Unit)
             /\ is_some(editorState')
             /\ Len(new) = Len(old) + 1
             /\ new[n + 1] = last'.content
             /\ \A i \in 0..(n - 1) : new[i + 1] = old[i + 1]
             /\ \A i \in n..(Len(old) - 1) : new[i + 2] = old[i + 1]
             /\ events' = <<[name |-> "file-updated",
                             payload |-> [line |-> n, content |-> last'.content,
                                          totalLines |-> Len(old) + 1]]>>]_vars

\* insert_line(0, "b") on the one-line document [""]: the old line moved to
\* index 1
C21_Witness ==
  /\ last.op = "insert_line"
  /\ last.ret.ok
  /\ last.num = 0
  /\ last.content = <<"b">>
  /\ is_some(editorState)
  /\ lines_of(editorState) = << <<"b">>, <<>> >>
  /\ events = <<[name |-> "file-updated",
                 payload |-> [line |-> 0, content |-> <<"b">>, totalLines |-> 2]]>>

\* every leaf of a tree, in pre-order
RECURSIVE leaf_spans(_)
RECURSIVE leaf_spans_of(_)
leaf_spans(node) ==
  IF Len(node.children) = 0 THEN <<node>> ELSE leaf_spans_of(node.children)
leaf_spans_of(children) ==
  IF children = <<>> THEN <<>> ELSE leaf_spans(children[1]) \o leaf_spans_of(Tail(children))

span_token(node) ==
  [start_offset |-> [row |-> node.start_position.row, col |-> node.start_position.column],
   end_offset |-> [row |-> node.end_position.row, col |-> node.end_position.column],
   kind |-> node.kind]

\* start <= end in row-major order
row_major_ordered(token) ==
  \/ token.start_offset.row < token.end_offset.row
  \/ /\ token.start_offset.row = token.end_offset.row
     /\ token.start_offset.col <= token.end_offset.col

\* C22, as claimed: when the parse gives a tree, for every request (s, e),
\* s > e included, the tokens emitted are exactly the leaves of the tree that
\* have a row in the clamped range min(s, L-1)..min(e, L-1), in pre-order;
\* each has start <= end in row-major order and a row in that range.
C22_LeavesOverlappingRange ==
  (last.op = "request_tokenization" /\ is_some(editorState) /\ is_some(last.parsed))
    => LET lines == lines_of(editorState)
           s == Min(last.num, Len(lines) - 1)
           e == Min(last.line_end, Len(lines) - 1)
           Overlaps(node) ==
             \E r \in s..e : node.start_position.row <= r /\ r <= node.end_position.row
           kept == SelectSeq(leaf_spans(unwrap(last.parsed)), Overlaps)
           tokens == events[1].payload
       IN /\ tokens = [i \in 1..Len(kept) |-> span_token(kept[i])]
          /\ \A i \in 1..Len(tokens) :
               /\ row_major_ordered(tokens[i])
               /\ \E r \in s..e :
                    tokens[i].start_offset.row <= r /\ r <= tokens[i].end_offset.row

\* C22, amended: the tokens emitted are the leaves, in pre-order, that end on
\* or below row min(s, L-1) and start on or above row min(e, L-1): for s <= e
\* the leaves with a row in the range, for s > e the leaves that span the rows
\* from e to s.  When there is no such leaf the fallback tokens of the rows
\* s'..e' are emitted in their place.  Each token has start <= end in
\* row-major order, and for s <= e each has a row in the range.
C22_LeavesPassingOrFallback ==
  (last.op = "request_tokenization" /\ is_some(editorState) /\ is_some(last.parsed))
    => LET lines == lines_of(editorState)
           s == Min(last.num, Len(lines) - 1)
           e == Min(last.line_end, Len(lines) - 1)
           Passes(node) == node.end_position.row >= s /\ node.start_position.row <= e
           kept == SelectSeq(leaf_spans(unwrap(last.parsed)), Passes)
           rows == IF e >= s THEN e - s + 1 ELSE 0
           tokens == events[1].payload
       IN /\ last.ret = Ok(Unit)
          /\ Len(events) = 1
          /\ kept # <<>> => tokens = [i \in 1..Len(kept) |-> span_token(kept[i])]
          /\ kept = <<>>
               => tokens = [i \in 1..rows |->
                              [start_offset |-> [row |-> s + i - 1, col |-> 0],
                               end_offset |-> [row |-> s + i - 1,
                                               col |-> Len(lines[s + i])],
                               kind |-> "untokenized"]]
          /\ \A i \in 1..Len(tokens) :
               /\ row_major_ordered(tokens[i])
               /\ s <= e
                    => \E r \in s..e :
                         tokens[i].start_offset.row <= r /\ r <= tokens[i].end_offset.row

\* rows 1..1 of a two-line text whose tree has an inner node over row 0 and a
\* leaf on row 1: the inner node is skipped, the leaf is the one token
C22_Witness ==
  /\ last.op = "request_tokenization"
  /\ last.num = 1
  /\ last.line_end = 1
  /\ is_some(editorState)
  /\ Len(lines_of(editorState)) = 2
  /\ last.parsed
       = Some(RootNode(lines_of(editorState),
                       <<InnerNode(<<LeafNode(lines_of(editorState), 0, 0)>>),
                         LeafNode(lines_of(editorState), 1, 1)>>))
  /\ events = <<Event("tokenization", <<span_token(LeafNode(lines_of(editorState), 1, 1))>>)>>

\* C24: a failed open or create returns an error, emits no event and leaves
\* the slot as it was: open_file of a file that cannot be read as text, and
\* create_empty_file when making the directory or writing the file fails,
\* return Err in their first part, emit nothing and leave the slot (an open
\* document with its path, language, lines and size, or the empty slot) and
\* the files unchanged (a directory made before a failed write stays);
\* open_file goes on only with a file it could read.
C24_FailedOpenCreateLeavesSlot ==
  [][/\ (last'.op \in {"open_file", "create_empty_file"} /\ ~last'.ret.ok)
          => /\ events' = <<>>
             /\ editorState' = editorState
             /\ disk' = disk
             /\ opening' = opening
     /\ (last'.op = "open_file" /\ ~last'.ret.ok)
          => read_to_string(disk, last'.path) = None
     /\ \A call \in BagToSet(opening') :
          (Begins(call) /\ call.op = "open_file")
            => read_to_string(disk, call.path) = Some(call.contents)
     /\ (last'.op = "create_empty_file" /\ last'.io # "ok") => ~last'.ret.ok]_vars

\* create_empty_file failed at its write while a document with two lines was
\* open: the document is still there
C24_Witness ==
  /\ last.op = "create_empty_file"
  /\ last.io = "write"
  /\ last.ret = Err(IoError)
  /\ events = <<>>
  /\ is_some(editorState)
  /\ unwrap(editorState).path # last.path
  /\ Len(lines_of(editorState)) = 2

\* --------------------------------------------- properties of the two writers
after_write(slot, a) == Some(write_line_body(unwrap(slot), a.num, a.content))

\* C3: two write_line calls to distinct indices made concurrently each take
\* effect exactly once: when both have returned both lines hold the content
\* written, line_count = max(old line_count, n1+1, n2+1) and the document is
\* what the two calls give in one of the two sequential orders; every
\* concurrent read_line sees the document before, between or after the two
\* writes in such an order, never a partly updated line sequence.
C3_WritesLinearizable ==
  LET a == targ["w1"]
      b == targ["w2"]
      ab == after_write(after_write(tbase, a), b)
      ba == after_write(after_write(tbase, b), a)
      visible == {tbase, after_write(tbase, a), after_write(tbase, b), ab, ba}
      ea == Event("file-updated", [line |-> a.num, content |-> a.content])
      eb == Event("file-updated", [line |-> b.num, content |-> b.content])
  IN /\ \A o \in seen : /\ o.slot \in visible
                        /\ o.ret = read_line_result(o.slot, targ[Reader].num)
     /\ (tpc["w1"] = "done" /\ tpc["w2"] = "done")
          => /\ editorState \in {ab, ba}
             /\ lines_of(editorState)[a.num + 1] = a.content
             /\ lines_of(editorState)[b.num + 1] = b.content
             /\ Len(lines_of(editorState))
                  = Max(Len(lines_of(tbase)), Max(a.num + 1, b.num + 1))
             /\ events \in {<<ea, eb>>, <<eb, ea>>}

\* both writers returned, the second one padded the document, and the reader
\* saw the document between the two writes
C3_Witness ==
  /\ tpc["w1"] = "done"
  /\ tpc["w2"] = "done"
  /\ Len(lines_of(editorState)) > Len(lines_of(tbase)) + 1
  /\ \E o \in seen : /\ o.slot # tbase
                     /\ o.slot # editorState
                     /\ o.slot = after_write(tbase, targ["w1"])


\* ------------------------------------------- properties of the ingestion queue
Count(x, s) == Cardinality({i \in 1..Len(s) : s[i] = x})

RECURSIVE Flatten(_)
Flatten(batches) == IF batches = <<>> THEN <<>> ELSE batches[1] \o Flatten(Tail(batches))

IsPrefix(s, t) == Len(s) <= Len(t) /\ SubSeq(t, 1, Len(s)) = s

\* the paths fetched and not yet handed to process_queued_file
InFlight ==
  current_files["r1"] \o current_files["r2"] \o new_files["r1"] \o new_files["r2"]

\* the producers inside add_task, and those of them that have pushed and
\* have their send still to do
InAddTask == {p \in Producers : ppc[p] # "idle"}
BeforeSend == {p \in Producers : ppc[p] = "send"}

\* nothing is in progress and nothing is left to do
Quiescent ==
  /\ ConsumerIdle
  /\ InAddTask = {}
  /\ \A r \in ReadyCallers : rpc[r] = "idle" /\ new_files[r] = <<>>

\* C4: no enqueued path is lost or dispatched twice: every path pushed is at
\* any time in exactly one of the pending list, a fetched batch and the
\* dispatched paths, and once ready has set the latch the k-th path pushed is
\* eventually dispatched, whether pushed before the start or after it.
C4_NoTaskLost ==
  /\ [](\A x \in QueuePaths :
          Count(x, dispatched) + Count(x, InFlight) + Count(x, tasks) = Count(x, added))
  /\ \A k \in 1..MaxAdds :
       (READY_ALREADY_CALLED /\ Len(added) >= k) ~> (Len(dispatched) >= k)

\* every path was dispatched; one went through the initial drain of ready and
\* another through a drain of the consumer loop
C4_Witness ==
  /\ READY_ALREADY_CALLED
  /\ Len(added) >= 2
  /\ dispatched = added
  /\ hist.drains # <<>>
  /\ Len(Flatten(hist.drains)) < Len(added)

\* C5: paths are dispatched in insertion order: an add_task call that returned
\* before another began pushed first (the calls hold the tasks mutex from push
\* to return, one at a time), and the dispatched paths are at any time the
\* first paths pushed, in push order, across the initial and all later drains.
C5_InsertionOrder ==
  /\ IsPrefix(dispatched, added)
  /\ dispatched \o InFlight \o tasks = added
  /\ Cardinality(InAddTask) <= 1
  /\ hist.completed = Len(added) - Cardinality(InAddTask)

\* two different paths dispatched in push order by two different drains
C5_Witness ==
  /\ Len(dispatched) >= 2
  /\ dispatched[1] # dispatched[2]
  /\ hist.drains # <<>>
  /\ hist.drains[1][1] = dispatched[2]

\* C6, as claimed: two paths enqueued while the consumer waits with an empty
\* pending list are processed by exactly one non-empty drain.
C6_ExactlyOneDrain ==
  (hist.first_idle /\ Len(added) = 2 /\ Quiescent) => hist.drains = <<added>>

\* C6, amended: they are processed in push order by one drain of both, or by
\* two drains of one path each when the consumer fetches between the pushes.
C6_OneOrTwoDrains ==
  (hist.first_idle /\ Len(added) = 2 /\ Quiescent)
    => hist.drains \in {<<added>>, << <<added[1]>>, <<added[2]>> >>}

C6_Witness ==
  /\ hist.first_idle
  /\ Quiescent
  /\ added = <<"a", "b">>
  /\ hist.drains = << <<"a", "b">> >>

\* C7, as claimed: at most one wake permit is outstanding.
C7_AtMostOneWake == channel <= 1

\* C7, amended: wake permits are counted: every add_task call sends one
\* message, after its push and before it returns, and the permits outstanding
\* are the messages sent minus the wait_for_task calls that returned.
C7_WakesCounted ==
  /\ channel = hist.sent - hist.waits
  /\ hist.sent = hist.completed + Cardinality({p \in Producers : ppc[p] = "return"})
  /\ hist.sent = Len(added) - Cardinality(BeforeSend)

\* as many permits outstanding as add_task calls were made, and more than one
C7_Witness ==
  /\ channel >= 2
  /\ channel = Len(added)

\* C8: the consumer loop is started exactly once: of any number of ready
\* calls, one after another or at the same time, one passes the latch, makes
\* the initial drain and spawns the loop; the others only return.
C8_StartedOnce ==
  /\ hist.latch_passed <= 1
  /\ hist.initial_fetches <= 1
  /\ hist.spawned <= 1
  /\ Cardinality({c \in ReadyCallers : cpc[c] # "none"}) = hist.spawned
  /\ Cardinality({r \in ReadyCallers : rpc[r] \in {"fetch", "dispatch"}}) <= 1
  /\ READY_ALREADY_CALLED <=> hist.latch_passed = 1
  /\ \A r \in ReadyCallers : rpc[r] = "return" => current_files[r] = <<>>
  /\ \A r \in ReadyCallers : cpc[r] = "none" => new_files[r] = <<>>
  /\ (READY_ALREADY_CALLED /\ \A r \in ReadyCallers : rpc[r] \in {"idle", "return"})
       => hist.initial_fetches = 1 /\ hist.spawned = 1

\* a ready call returning early while the call that passed the latch is still
\* dispatching its initial drain
C8_Witness ==
  \E r, w \in ReadyCallers :
    /\ rpc[r] = "return"
    /\ rpc[w] = "dispatch"
    /\ current_files[w] # <<>>
    /\ hist.spawned = 0

\* the consumer loop is blocked in wait_for_task while paths are pending
BlockedWithPending ==
  /\ \E c \in ReadyCallers : cpc[c] = "wait"
  /\ tasks # <<>>

\* C23, as claimed: no lost wakeup: in every state in which the consumer loop
\* is blocked in wait_for_task and the pending list is not empty, at least one
\* wake message is in the channel.
C23_WakeInChannel == BlockedWithPending => channel > 0

\* C23, amended: in every state in which the consumer loop is blocked in
\* wait_for_task and the pending list is not empty, a wake message is in the
\* channel or an add_task call has pushed and has its send still to do; hence
\* the consumer does not stay blocked while paths are pending, it returns from
\* wait_for_task.
C23_WakeInChannelOrOnItsWay ==
  /\ [](BlockedWithPending => (channel > 0 \/ BeforeSend # {}))
  /\ \A c \in ReadyCallers :
       (cpc[c] = "wait" /\ tasks # <<>>) ~> (cpc[c] = "fetch")

\* a path pushed after the initial drain and before the first wait returned:
\* the consumer is blocked, the add_task call has returned, its wake is in
\* the channel
C23_Witness ==
  /\ BlockedWithPending
  /\ hist.initial_fetches = 1
  /\ hist.waits = 0
  /\ InAddTask = {}
  /\ hist.completed = 1
  /\ channel = 1

====
